---- MODULE Spec2Model ----
(***************************************************************************)
(* A model of attic/tConvolveOMP/tConvolveOMP.cc: the convolutional        *)
(* gridding and degridding kernels (sequential and OpenMP), the offset     *)
(* indexer initCOffset and the normalisation of initC.                     *)
(*                                                                         *)
(* Complex values (std::complex<float>) are pairs <<re, im>> of integers   *)
(* with exact arithmetic.  Vectors keep the 0-based indices of the source: *)
(* a vector of size n is a function with domain 0..n-1.                    *)
(***************************************************************************)
EXTENDS Integers, FiniteSets, Sequences, TLC

\* ------------------------------------------------------------------ bounds
\* Side of the square grid (the parameter gSize of the kernels).
GSize == 4
\* Largest half-width of the stencil that is explored (parameter support).
MaxSupport == 1
\* Longest explicitly enumerated sample list.
MaxSamples == 2
\* Largest OpenMP team (omp_get_num_threads()).
MaxThreads == 2
\* Samples past one full chunk in the long lists of the degridding runs.
MaxTail == 2
\* Calls of degridKernel in a run.
MaxCalls == 2

\* --------------------------------------------------------------- Value type
Value == Int \X Int

Zero == <<0, 0>>

\* std::complex operator+
CAdd(a, b) == <<a[1] + b[1], a[2] + b[2]>>

\* std::complex operator*
CMul(a, b) == <<a[1] * b[1] - a[2] * b[2], a[1] * b[2] + a[2] * b[1]>>

\* The % of C++ on int: the remainder of the division that truncates toward 0.
CMod(a, b) == IF a >= 0 THEN a % b ELSE -((-a) % b)

\* data.size()
Size(vec) == Cardinality(DOMAIN vec)

\* ------------------------------------------------------------ kernel inputs
\* const int sSize = 2 * support + 1;
SSize(sup) == 2 * sup + 1

\* Number of sSize*sSize blocks the kernel table of a run holds (the table
\* of the source holds overSample*overSample*wSize of them).
NBlocks == 2

\* A kernel table with coefficients of both signs and non-zero imaginary parts.
ComplexTable(sup) ==
    [k \in 0..(NBlocks * SSize(sup) * SSize(sup) - 1) |->
        <<IF k % 2 = 0 THEN k + 1 ELSE -(k + 1), k % 3>>]

\* A kernel table as initC fills it: real coefficients (cos, exp) of both signs.
RealTable(sup) ==
    [k \in 0..(NBlocks * SSize(sup) * SSize(sup) - 1) |->
        <<IF k % 3 = 1 THEN -(k + 1) ELSE k + 1, 0>>]

\* The documented precondition on iu and iv: [support, gSize - support).
InRange(sup) == sup..(GSize - sup - 1)

\* One (sample, channel) entry: grid anchor, kernel-table offset and value.
\* iu takes the two ends of the range, iv every value of it; a sample at the
\* low end uses block 0 and the value 1+0i (as main sets it), one at the high
\* end block 1 and the value 2-i.
SampleAt(iuD, ivD, sup) ==
    [iu |-> iuD, iv |-> ivD,
     cOffset |-> IF iuD = sup THEN 0 ELSE SSize(sup) * SSize(sup),
     data |-> IF iuD = sup THEN <<1, 0>> ELSE <<2, -1>>]

Samples(sup) ==
    {SampleAt(iuD, ivD, sup) : iuD \in {sup, GSize - sup - 1}, ivD \in InRange(sup)}

\* Every list of at most MaxSamples samples.
ShortLists(sup) ==
    UNION {[0..(n - 1) -> Samples(sup)] : n \in 0..MaxSamples}

\* Lists that need more than one chunk of the dynamic schedule: sample d sits
\* at alternating ends in u and walks the range in v, from position shift on.
LongList(n, shift, sup) ==
    [d \in 0..(n - 1) |->
        SampleAt(IF (d + shift) % 2 = 0 THEN sup ELSE GSize - sup - 1,
                 sup + ((d + shift) % (GSize - 2 * sup)), sup)]

\* Initial contents of a grid: zero as in main, or an arbitrary pattern.
ZeroGrid == [k \in 0..(GSize * GSize - 1) |-> Zero]
PatternGrid == [k \in 0..(GSize * GSize - 1) |-> <<k + 1, (k % 2) + 1>>]
OnesGrid == [k \in 0..(GSize * GSize - 1) |-> <<1, 0>>]

\* ------------------------------------------------------------- gridKernel
\* int gind = iu[dind] + gSize * iv[dind] - support;
GridIndex(iuD, ivD, sup, gSize) == iuD + gSize * ivD - sup

\* The run of n cells starting at gind lies inside the vector of gSize*gSize
\* cells and inside one grid row.
RowInBounds(gind, n, gSize) ==
    /\ gind >= 0
    /\ gind + n <= gSize * gSize
    /\ gind \div gSize = (gind + n - 1) \div gSize

\* Caxpy with the accumulation replaced by an assignment (= for +=).
CaxpyAssign(n, d, Ctab, cind, grid, gind) ==
    [k \in DOMAIN grid |->
        IF gind <= k /\ k < gind + n
        THEN CMul(d, Ctab[cind + (k - gind)])
        ELSE grid[k]]

\* The inner loop over suppu (or CAXPY): grid[gind + s] += d * C[cind + s] for
\* s in 0..n-1.  A store past the end of the vector does not land in it.
Caxpy(n, d, Ctab, cind, grid, gind) ==
    [k \in DOMAIN grid |->
        IF gind <= k /\ k < gind + n
        THEN CAdd(grid[k], CMul(d, Ctab[cind + (k - gind)]))
        ELSE grid[k]]

\* The loop over suppv for one sample, from stencil row suppv on.
RECURSIVE GridStencil(_, _, _, _, _, _, _, _)
GridStencil(d, sSize, Ctab, grid, gSize, gind, cind, suppv) ==
    IF suppv >= sSize THEN grid
    ELSE GridStencil(d, sSize, Ctab, Caxpy(sSize, d, Ctab, cind, grid, gind),
                     gSize, gind + gSize, cind + sSize, suppv + 1)

\* The loop over dind, from sample dind on.
RECURSIVE GridLoop(_, _, _, _, _, _, _, _, _)
GridLoop(dat, sup, Ctab, cOff, iuV, ivV, grid, gSize, dind) ==
    IF dind >= Size(dat) THEN grid
    ELSE GridLoop(dat, sup, Ctab, cOff, iuV, ivV,
                  GridStencil(dat[dind], SSize(sup), Ctab, grid, gSize,
                              GridIndex(iuV[dind], ivV[dind], sup, gSize),
                              cOff[dind], 0),
                  gSize, dind + 1)

\* gridKernel: the vectors it receives by reference, as it leaves them.
gridKernel(dat, sup, Ctab, cOff, iuV, ivV, grid, gSize) ==
    [data |-> dat, C |-> Ctab, cOffset |-> cOff, iu |-> iuV, iv |-> ivV,
     grid |-> GridLoop(dat, sup, Ctab, cOff, iuV, ivV, grid, gSize, 0)]

\* The first cells of the stencil rows a kernel call visits: both gridding
\* kernels and both degridding kernels walk gind, gind + gSize, ...
RowStarts(sup, iuV, ivV, gSize) ==
    {GridIndex(iuV[d], ivV[d], sup, gSize) + suppv * gSize :
        d \in DOMAIN iuV, suppv \in 0..(SSize(sup) - 1)}

\* Some access of a kernel call falls outside the grid vector.
OutOfBounds(sup, iuV, ivV, gSize) ==
    \E g \in RowStarts(sup, iuV, ivV, gSize) : ~RowInBounds(g, SSize(sup), gSize)

\* ---------------------------------------------------------- gridKernelOMP
\* InitRow with the row counter started at 0 whatever the sample's iv.
InitRowZero(ivD, nthr) == 0

\* int row = iv[dind] % nthreads;
InitRow(ivD, nthr) == CMod(ivD, nthr)

\* NextRow with the wrap one row late (> for >=).
NextRowLate(row, nthr) == IF row + 1 > nthr THEN 0 ELSE row + 1

\* row++; row = (row >= nthreads) ? 0 : row;
NextRow(row, nthr) == IF row + 1 >= nthr THEN 0 ELSE row + 1

\* if (row == tid)
Owns(row, tid) == row = tid

\* The locals of a thread as it enters sample dind (or leaves the loop).
EnterSample(dind, sup, cOff, iuV, ivV, gSize, nthr) ==
    IF dind >= Size(iuV)
    THEN [dind |-> dind, suppv |-> 0, gind |-> 0, cind |-> 0, row |-> 0]
    ELSE [dind |-> dind, suppv |-> 0,
          gind |-> GridIndex(iuV[dind], ivV[dind], sup, gSize),
          cind |-> cOff[dind],
          row |-> InitRow(ivV[dind], nthr)]

\* The locals after one iteration of the suppv loop.
Advance(l, sup, cOff, iuV, ivV, gSize, nthr) ==
    IF l.suppv + 1 < SSize(sup)
    THEN [dind |-> l.dind, suppv |-> l.suppv + 1, gind |-> l.gind + gSize,
          cind |-> l.cind + SSize(sup), row |-> NextRow(l.row, nthr)]
    ELSE EnterSample(l.dind + 1, sup, cOff, iuV, ivV, gSize, nthr)

\* The iterations of the suppv loop that thread tid skips (row # tid) touch
\* nothing but its locals: the locals when it reaches the next row it owns,
\* or the end of the loop over dind.
RECURSIVE SkipRows(_, _, _, _, _, _, _, _)
SkipRows(l, tid, sup, cOff, iuV, ivV, gSize, nthr) ==
    IF l.dind >= Size(iuV) \/ Owns(l.row, tid) THEN l
    ELSE SkipRows(Advance(l, sup, cOff, iuV, ivV, gSize, nthr), tid, sup, cOff,
                  iuV, ivV, gSize, nthr)

\* ------------------------------------------------------------ degridKernel
\* What a load of grid[k] yields.  A load past the end of the vector is
\* undefined: it yields whatever lies there (past), if it does not fault.
Load(grid, k, past) == IF k \in DOMAIN grid THEN grid[k] ELSE past

\* Cdotu with the loop one cell short (suppu < sSize - 1).
RECURSIVE CdotuShort(_, _, _, _, _, _, _)
CdotuShort(n, grid, gind, Ctab, cind, past, acc) ==
    IF n <= 1 THEN acc
    ELSE CdotuShort(n - 1, grid, gind + 1, Ctab, cind + 1, past,
                    CAdd(acc, CMul(Load(grid, gind, past), Ctab[cind])))

\* The inner loop over suppu (or CDOTU_SUB) added to acc:
\* acc += grid[gind + s] * C[cind + s] for s in 0..n-1, in this order.
RECURSIVE Cdotu(_, _, _, _, _, _, _)
Cdotu(n, grid, gind, Ctab, cind, past, acc) ==
    IF n <= 0 THEN acc
    ELSE Cdotu(n - 1, grid, gind + 1, Ctab, cind + 1, past,
               CAdd(acc, CMul(Load(grid, gind, past), Ctab[cind])))

\* The loop over suppv for one sample, from stencil row suppv on.
RECURSIVE DegridStencil(_, _, _, _, _, _, _, _, _)
DegridStencil(acc, sSize, Ctab, grid, gSize, gind, cind, suppv, past) ==
    IF suppv >= sSize THEN acc
    ELSE DegridStencil(Cdotu(sSize, grid, gind, Ctab, cind, past, acc),
                       sSize, Ctab, grid, gSize, gind + gSize, cind + sSize,
                       suppv + 1, past)

\* ClearSlot with the assignment dropped: the slot keeps what it held.
ClearSlotKeeps(old) == old

\* data[dind] = 0.0;
ClearSlot(old) == Zero

\* One iteration of the loop over dind: the value data[dind] is left with.
DegridSample(old, grid, gSize, sup, Ctab, cOffD, iuD, ivD, past) ==
    DegridStencil(ClearSlot(old), SSize(sup), Ctab, grid, gSize,
                  GridIndex(iuD, ivD, sup, gSize), cOffD, 0, past)

\* degridKernel with the clearing store sent to the grid cell the sample
\* starts at instead of the data slot (*gptr = 0.0 for data[dind] = 0.0).
degridKernelClearsGrid(grid, gSize, sup, Ctab, cOff, iuV, ivV, dat, past) ==
    [grid |-> [k \in DOMAIN grid |->
                  IF \E d \in DOMAIN dat : k = GridIndex(iuV[d], ivV[d], sup, gSize)
                  THEN Zero ELSE grid[k]],
     C |-> Ctab, cOffset |-> cOff, iu |-> iuV, iv |-> ivV,
     data |-> [dind \in DOMAIN dat |->
                  DegridSample(dat[dind], grid, gSize, sup, Ctab, cOff[dind],
                               iuV[dind], ivV[dind], past)]]

\* degridKernel: the vectors it receives by reference, as it leaves them.
degridKernel(grid, gSize, sup, Ctab, cOff, iuV, ivV, dat, past) ==
    [grid |-> grid, C |-> Ctab, cOffset |-> cOff, iu |-> iuV, iv |-> ivV,
     data |-> [dind \in DOMAIN dat |->
                  DegridSample(dat[dind], grid, gSize, sup, Ctab, cOff[dind],
                               iuV[dind], ivV[dind], past)]]

\* --------------------------------------------------------- degridKernelOMP
\* schedule(dynamic, 32): the iterations a thread takes at a time.
ChunkSize == 32

\* TakeChunk with every chunk started at iteration 0.
TakeChunkFromZero(next, n) ==
    [lo |-> 0, hi |-> IF next + ChunkSize < n THEN next + ChunkSize ELSE n]

\* The chunk a thread is handed when the next unassigned iteration is next.
TakeChunk(next, n) ==
    [lo |-> next, hi |-> IF next + ChunkSize < n THEN next + ChunkSize ELSE n]

LongLists(sup) ==
    {LongList(n, shift, sup) :
        n \in (ChunkSize + 1)..(ChunkSize + MaxTail), shift \in 0..1}

\* ------------------------------------------------------------------ state
VARIABLES
    build,        \* the macro the program is built with: "GRIDING", "DEGRIDING"
    phase,        \* the block of main that runs next
    support,      \* half-width of the stencil
    nthreads,     \* omp_get_num_threads()
    data, C, cOffset, iu, iv,   \* the vectors of main handed to the kernels
    cpugrid, ompgrid,           \* the grids of the sequential and OpenMP runs
    cpuoutdata, ompoutdata,     \* the outputs of the two degridding runs
    past,         \* what lies in memory past the end of cpugrid and ompgrid
    loc,          \* gridKernelOMP: the locals of each thread
    chunk,        \* degridKernelOMP: the chunk and position of each thread
    nextIter,     \* degridKernelOMP: the first iteration not yet handed out
    writer,       \* instrumentation: the threads that stored to each grid cell
    dwriter,      \* instrumentation: the threads that stored to each data slot
    oob,          \* instrumentation: an access fell outside the grid vector
    grid0,        \* instrumentation: the grid as it was before gridding
    calls,        \* instrumentation: the grids of the degridKernel calls so far
    verdict,      \* what the verification block printed
    u, v, w,      \* initCOffset: the coordinates of the samples
    freq,         \* the frequency of each channel
    cellSize, wCellSize, wSize,   \* cell sizes and the number of w-planes
    fracu, fracv, \* instrumentation: the oversample bins initCOffset computed
    sumC,         \* initC: the local sumC
    baseline      \* the maximum baseline

\* The variables initC and initCOffset work on, which the kernels never see.
setup == <<u, v, w, freq, cellSize, wCellSize, wSize, fracu, fracv, sumC, baseline>>

vars == <<setup, build, phase, support, nthreads, data, C, cOffset, iu, iv, cpugrid,
          ompgrid, cpuoutdata, ompoutdata, past, loc, chunk, nextIter, writer,
          dwriter, oob, grid0, calls, verdict>>

Threads == 0..(nthreads - 1)

\* Cells the instrumentation tracks: the grid and the rows a stencil anchored
\* in range can reach past its end.
Cells == 0..(GSize * (GSize + 2 * MaxSupport) - 1)

Grids == {OnesGrid, PatternGrid}

Pasts == {[cpu |-> Zero, omp |-> Zero], [cpu |-> <<3, 1>>, omp |-> <<-2, 5>>]}

\* The kernels are run on vectors given directly: initC and initCOffset, and
\* the variables only they use, play no part.
SetupUnused ==
    /\ u = <<>> /\ v = <<>> /\ w = <<>> /\ freq = <<>>
    /\ cellSize = 0 /\ wCellSize = 0 /\ wSize = 0
    /\ fracu = <<>> /\ fracv = <<>>
    /\ sumC = 0
    /\ baseline = 0

\* The sample lists of a degridding run: the empty list, every list of one
\* sample and the long lists.
DegridLists(sup) ==
    {<<>>} \cup {[d \in 0..0 |-> s] : s \in Samples(sup)} \cup LongLists(sup)

\* main up to the gridding or degridding section, for the inputs tried.
InitWith(b) ==
    /\ build = b
    /\ phase = IF b = "GRIDING" THEN "serial_grid" ELSE "serial_degrid"
    /\ support \in 0..MaxSupport
    /\ nthreads \in 1..MaxThreads
    /\ \E list \in IF b = "GRIDING" THEN ShortLists(support) ELSE DegridLists(support) :
          /\ data = [d \in DOMAIN list |-> list[d].data]
          /\ cOffset = [d \in DOMAIN list |-> list[d].cOffset]
          /\ iu = [d \in DOMAIN list |-> list[d].iu]
          /\ iv = [d \in DOMAIN list |-> list[d].iv]
          /\ cpuoutdata = [d \in DOMAIN list |-> Zero]
          /\ ompoutdata = [d \in DOMAIN list |-> Zero]
          /\ dwriter = [d \in DOMAIN list |-> {}]
    /\ C \in IF b = "GRIDING" THEN {ComplexTable(support)}
             ELSE {ComplexTable(support), RealTable(support)}
    /\ grid0 \in IF b = "GRIDING" THEN {ZeroGrid, PatternGrid} ELSE {ZeroGrid}
    /\ cpugrid = grid0
    /\ ompgrid = grid0
    /\ past \in IF b = "GRIDING" THEN {[cpu |-> Zero, omp |-> Zero]} ELSE Pasts
    /\ loc = [t \in Threads |->
                 SkipRows(EnterSample(0, support, cOffset, iu, iv, GSize, nthreads),
                          t, support, cOffset, iu, iv, GSize, nthreads)]
    /\ chunk = [t \in Threads |-> [lo |-> 0, hi |-> 0, dind |-> 0]]
    /\ nextIter = 0
    /\ writer = [k \in Cells |-> {}]
    /\ oob = FALSE
    /\ calls = <<>>
    /\ verdict = "none"
    /\ SetupUnused

InitGrid == InitWith("GRIDING")

InitDegrid == InitWith("DEGRIDING")

Init == InitGrid \/ InitDegrid

\* ------------------------------------------------------- main: gridding
\* The vectors a kernel call leaves behind are the vectors of main.
GridVectorsBecome(r) ==
    /\ data' = r.data
    /\ C' = r.C
    /\ cOffset' = r.cOffset
    /\ iu' = r.iu
    /\ iv' = r.iv

\* One iteration of the suppv loop of gridKernelOMP in thread tid with locals
\* l: the vectors the kernel received by reference, as the iteration leaves
\* them.
gridKernelOMPRow(dat, sup, Ctab, cOff, iuV, ivV, grid, l, tid) ==
    [data |-> dat, C |-> Ctab, cOffset |-> cOff, iu |-> iuV, iv |-> ivV,
     grid |-> IF Owns(l.row, tid)
              THEN Caxpy(SSize(sup), dat[l.dind], Ctab, l.cind, grid, l.gind)
              ELSE grid]

\* The cells one iteration of the suppv loop stores to.
RowCells(l, sup, tid) ==
    IF Owns(l.row, tid) THEN l.gind..(l.gind + SSize(sup) - 1) ELSE {}

\* SERIAL_GRIDING: gridKernel(data, support, C, cOffset, iu, iv, cpugrid, gSize).
\* A store outside the vector is undefined: the call returns all the same, or
\* the process faults.
SerialGridding ==
    /\ phase = "serial_grid"
    /\ LET r == gridKernel(data, support, C, cOffset, iu, iv, cpugrid, GSize)
           bad == OutOfBounds(support, iu, iv, GSize)
       IN \/ /\ GridVectorsBecome(r)
             /\ cpugrid' = r.grid
             /\ oob' = (oob \/ bad)
             /\ phase' = "omp_grid"
          \/ /\ bad
             /\ oob' = TRUE
             /\ phase' = "crashed"
             /\ UNCHANGED <<data, C, cOffset, iu, iv, cpugrid>>
    /\ UNCHANGED <<setup, build, support, nthreads, ompgrid, cpuoutdata, ompoutdata,
                   past, loc, chunk, nextIter, writer, dwriter, grid0, calls,
                   verdict>>

\* OMP_GRIDING: thread tid runs the iteration of the suppv loop it has reached,
\* a row it owns, and the iterations it skips after it.
GridThreadStep(tid) ==
    /\ phase = "omp_grid"
    /\ loc[tid].dind < Size(data)
    /\ LET l == loc[tid]
           r == gridKernelOMPRow(data, support, C, cOffset, iu, iv, ompgrid, l, tid)
           cells == RowCells(l, support, tid)
           bad == cells # {} /\ ~RowInBounds(l.gind, SSize(support), GSize)
       IN \/ /\ GridVectorsBecome(r)
             /\ ompgrid' = r.grid
             /\ writer' = [k \in Cells |->
                              IF k \in cells THEN writer[k] \cup {tid} ELSE writer[k]]
             /\ oob' = (oob \/ bad)
             /\ loc' = [loc EXCEPT ![tid] =
                           SkipRows(Advance(l, support, cOffset, iu, iv, GSize,
                                            nthreads),
                                    tid, support, cOffset, iu, iv, GSize, nthreads)]
             /\ phase' = phase
          \/ /\ bad
             /\ oob' = TRUE
             /\ phase' = "crashed"
             /\ UNCHANGED <<data, C, cOffset, iu, iv, ompgrid, writer, loc>>
    /\ UNCHANGED <<setup, build, support, nthreads, cpugrid, cpuoutdata, ompoutdata,
                   past, chunk, nextIter, dwriter, grid0, calls, verdict>>

\* The end of the parallel region: every thread has left its loop over dind.
GridJoin ==
    /\ phase = "omp_grid"
    /\ \A t \in Threads : loc[t].dind >= Size(data)
    /\ phase' = "verify_grid"
    /\ UNCHANGED <<setup, build, support, nthreads, data, C, cOffset, iu, iv, cpugrid,
                   ompgrid, cpuoutdata, ompoutdata, past, loc, chunk, nextIter,
                   writer, dwriter, oob, grid0, calls, verdict>>

\* fabs(a[i].real() - b[i].real()) > 0.00001 for some i, on exact values.
RealPartsDiffer(a, b) == \E i \in DOMAIN a : a[i][1] # b[i][1]

\* VERIFY_GRIDING
VerifyGriding ==
    /\ phase = "verify_grid"
    /\ verdict' = IF RealPartsDiffer(cpugrid, ompgrid) THEN "Fail" ELSE "Pass"
    /\ phase' = "done"
    /\ UNCHANGED <<setup, build, support, nthreads, data, C, cOffset, iu, iv, cpugrid,
                   ompgrid, cpuoutdata, ompoutdata, past, loc, chunk, nextIter,
                   writer, dwriter, oob, grid0, calls>>

NextGrid ==
    \/ SerialGridding
    \/ \E tid \in Threads : GridThreadStep(tid)
    \/ GridJoin
    \/ VerifyGriding

SpecGrid == InitGrid /\ [][NextGrid]_vars

\* ----------------------------------------------------- main: degridding
\* The read-only vectors a degridding call leaves behind are the vectors of
\* main; the vector data of main is not handed to the degridding kernels.
DegridVectorsBecome(r) ==
    /\ C' = r.C
    /\ cOffset' = r.cOffset
    /\ iu' = r.iu
    /\ iv' = r.iv
    /\ data' = data

\* SERIAL_DEGRIDING: cpugrid.assign(...) and degridKernel(cpugrid, gSize,
\* support, C, cOffset, iu, iv, cpuoutdata), with the grid g for the 1+0i grid
\* of main.  A load outside the vector is undefined: it yields what lies past
\* the end, or the process faults.
SerialDegridding(g) ==
    /\ phase = "serial_degrid"
    /\ Len(calls) < MaxCalls
    /\ LET r == degridKernel(g, GSize, support, C, cOffset, iu, iv, cpuoutdata,
                             past.cpu)
           bad == OutOfBounds(support, iu, iv, GSize)
       IN \/ /\ DegridVectorsBecome(r)
             /\ cpugrid' = r.grid
             /\ cpuoutdata' = r.data
             /\ calls' = Append(calls, g)
             /\ oob' = (oob \/ bad)
             /\ phase' = phase
          \/ /\ bad
             /\ oob' = TRUE
             /\ phase' = "crashed"
             /\ UNCHANGED <<data, C, cOffset, iu, iv, cpugrid, cpuoutdata, calls>>
    /\ UNCHANGED <<setup, build, support, nthreads, ompgrid, ompoutdata, past, loc,
                   chunk, nextIter, writer, dwriter, grid0, verdict>>

\* OMP_DEGRIDING, which main reaches after its one call of degridKernel:
\* ompgrid is filled as cpugrid was and the team starts on the loop of
\* degridKernelOMP.
StartOmpDegridding ==
    /\ phase = "serial_degrid"
    /\ Len(calls) = 1
    /\ ompgrid' = cpugrid
    /\ phase' = "omp_degrid"
    /\ UNCHANGED <<setup, build, support, nthreads, data, C, cOffset, iu, iv, cpugrid,
                   cpuoutdata, ompoutdata, past, loc, chunk, nextIter, writer,
                   dwriter, oob, grid0, calls, verdict>>

\* A thread that has finished its chunk is handed the next ChunkSize
\* iterations not yet handed out.
ChunkStep(tid) ==
    /\ phase = "omp_degrid"
    /\ chunk[tid].dind >= chunk[tid].hi
    /\ nextIter < Size(ompoutdata)
    /\ LET c == TakeChunk(nextIter, Size(ompoutdata))
       IN /\ chunk' = [chunk EXCEPT ![tid] = [lo |-> c.lo, hi |-> c.hi, dind |-> c.lo]]
          /\ nextIter' = c.hi
    /\ UNCHANGED <<setup, build, phase, support, nthreads, data, C, cOffset, iu, iv,
                   cpugrid, ompgrid, cpuoutdata, ompoutdata, past, loc, writer,
                   dwriter, oob, grid0, calls, verdict>>

\* One iteration of the loop of degridKernelOMP in thread tid: the vectors
\* the kernel received by reference, as the iteration leaves them.
degridKernelOMPIter(grid, gSize, sup, Ctab, cOff, iuV, ivV, dat, dind, pst) ==
    [grid |-> grid, C |-> Ctab, cOffset |-> cOff, iu |-> iuV, iv |-> ivV,
     data |-> [dat EXCEPT ![dind] =
                  DegridSample(dat[dind], grid, gSize, sup, Ctab, cOff[dind],
                               iuV[dind], ivV[dind], pst)]]

\* Thread tid runs the next iteration of its chunk.
DegridThreadStep(tid) ==
    /\ phase = "omp_degrid"
    /\ chunk[tid].dind < chunk[tid].hi
    /\ LET dind == chunk[tid].dind
           r == degridKernelOMPIter(ompgrid, GSize, support, C, cOffset, iu, iv,
                                    ompoutdata, dind, past.omp)
           bad == \E suppv \in 0..(SSize(support) - 1) :
                     ~RowInBounds(GridIndex(iu[dind], iv[dind], support, GSize)
                                      + suppv * GSize, SSize(support), GSize)
       IN \/ /\ DegridVectorsBecome(r)
             /\ ompgrid' = r.grid
             /\ ompoutdata' = r.data
             /\ dwriter' = [dwriter EXCEPT ![dind] = @ \cup {tid}]
             /\ chunk' = [chunk EXCEPT ![tid].dind = @ + 1]
             /\ oob' = (oob \/ bad)
             /\ phase' = phase
          \/ /\ bad
             /\ oob' = TRUE
             /\ phase' = "crashed"
             /\ UNCHANGED <<data, C, cOffset, iu, iv, ompgrid, ompoutdata,
                            dwriter, chunk>>
    /\ UNCHANGED <<setup, build, support, nthreads, cpugrid, cpuoutdata, past, loc,
                   nextIter, writer, grid0, calls, verdict>>

\* The end of the parallel loop: every iteration handed out and run.
DegridJoin ==
    /\ phase = "omp_degrid"
    /\ nextIter >= Size(ompoutdata)
    /\ \A t \in Threads : chunk[t].dind >= chunk[t].hi
    /\ phase' = "verify_degrid"
    /\ UNCHANGED <<setup, build, support, nthreads, data, C, cOffset, iu, iv, cpugrid,
                   ompgrid, cpuoutdata, ompoutdata, past, loc, chunk, nextIter,
                   writer, dwriter, oob, grid0, calls, verdict>>

\* VERIFY_DEGRIDING
VerifyDegriding ==
    /\ phase = "verify_degrid"
    /\ verdict' = IF RealPartsDiffer(cpuoutdata, ompoutdata) THEN "Fail" ELSE "Pass"
    /\ phase' = "done"
    /\ UNCHANGED <<setup, build, support, nthreads, data, C, cOffset, iu, iv, cpugrid,
                   ompgrid, cpuoutdata, ompoutdata, past, loc, chunk, nextIter,
                   writer, dwriter, oob, grid0, calls>>

NextDegrid ==
    \/ \E g \in Grids : SerialDegridding(g)
    \/ StartOmpDegridding
    \/ \E tid \in Threads : ChunkStep(tid)
    \/ \E tid \in Threads : DegridThreadStep(tid)
    \/ DegridJoin
    \/ VerifyDegriding

SpecDegrid == InitDegrid /\ [][NextDegrid]_vars

\* The program built with either macro.
Next == NextGrid \/ NextDegrid

Spec == Init /\ [][Next]_vars

\* ---------------------------------------------------- properties: gridding
\* The sum of f over the finite set S of complex-valued terms' indices.
RECURSIVE CSum(_, _)
CSum(S, f) ==
    IF S = {} THEN Zero
    ELSE LET x == CHOOSE y \in S : TRUE
         IN CAdd(f[x], CSum(S \ {x}, f))

\* The stencil positions <<d, i, j>> of the sample list that fall on cell c:
\* column iu[d] - support + i of grid row iv[d] + j.
Contributions(c) ==
    {p \in (DOMAIN data) \X (0..(SSize(support) - 1)) \X (0..(SSize(support) - 1)) :
        iu[p[1]] - support + p[2] + GSize * (iv[p[1]] + p[3]) = c}

\* data[d] * C[cOffset[d] + i + (2*support+1)*j]
Term(p) == CMul(data[p[1]], C[cOffset[p[1]] + p[2] + SSize(support) * p[3]])

\* What cell c must hold after gridding.
Gridded(c) ==
    CAdd(grid0[c],
         CSum(Contributions(c), [p \in Contributions(c) |-> Term(p)]))

GridThreadsDone == phase \in {"verify_grid", "done"}

\* C1: in gridKernelOMP no cell is stored to by two threads, and thread t
\* stores to a cell of absolute grid row r only if r mod nthreads = t, whatever
\* the team size, the sample list in range and the interleaving.
C1_RowOwnership ==
    \A k \in Cells :
        /\ Cardinality(writer[k]) <= 1
        /\ \A t \in writer[k] : (k \div GSize) % nthreads = t

\* Two threads have finished, each having stored rows of two or more samples.
C1_Witness ==
    /\ GridThreadsDone
    /\ nthreads >= 2
    /\ Size(data) >= 2
    /\ \A t \in Threads : \E k \in Cells : writer[k] = {t}
    /\ \E d, e \in DOMAIN iv : iv[d] % nthreads # iv[e] % nthreads

\* C2: once every thread of gridKernelOMP has finished, its grid equals the
\* grid gridKernel produced from the same vectors and the same initial grid.
C2_SameGrid ==
    GridThreadsDone =>
        /\ ompgrid = cpugrid
        /\ phase = "done" => verdict = "Pass"

\* Verification passed for two overlapping samples gridded by two threads.
C2_Witness ==
    /\ phase = "done"
    /\ verdict = "Pass"
    /\ nthreads >= 2
    /\ Size(data) >= 2
    /\ ompgrid # grid0
    /\ \E c \in DOMAIN grid0 : Cardinality(Contributions(c)) >= 2

\* C3: after gridKernel returns, every cell holds its initial value plus the
\* sum of data[d] * C[cOffset[d] + i + (2*support+1)*j] over the stencil
\* positions (d, i, j) that fall on it.
C3_GridKernelSum ==
    phase \in {"omp_grid", "verify_grid", "done"} =>
        \A c \in DOMAIN cpugrid : cpugrid[c] = Gridded(c)

\* gridKernel has returned and two samples contributed to one cell.
C3_Witness ==
    /\ phase = "omp_grid"
    /\ grid0 = PatternGrid
    /\ \E c \in DOMAIN grid0 :
          /\ \E p, q \in Contributions(c) : p[1] # q[1]
          /\ cpugrid[c] # grid0[c]

\* -------------------------------------------------- properties: degridding
Abs(x) == IF x < 0 THEN -x ELSE x

StencilOffsets == (0..(SSize(support) - 1)) \X (0..(SSize(support) - 1))

\* The grid index of stencil position q = <<i, j>> of sample d.
CellOf(d, q) == iu[d] - support + q[1] + GSize * (iv[d] + q[2])

\* The stencil of sample d lies inside the grid vector.
SampleInGrid(d) == \A q \in StencilOffsets : CellOf(d, q) \in 0..(GSize * GSize - 1)

\* The sum over the stencil of sample d of (the value at the cell) times
\* (the coefficient), for the grid g and the memory pst past its end.
StencilSum(g, pst, d) ==
    CSum(StencilOffsets,
         [q \in StencilOffsets |->
             CMul(Load(g, CellOf(d, q), pst),
                  C[cOffset[d] + q[1] + SSize(support) * q[2]])])

BlockIndices(d) == cOffset[d]..(cOffset[d] + SSize(support) * SSize(support) - 1)

\* The sum of the coefficients of the block of sample d.
BlockSum(d) == CSum(BlockIndices(d), [k \in BlockIndices(d) |-> C[k]])

\* The sum of the magnitudes of the (real) coefficients of the block.
RECURSIVE AbsSum(_)
AbsSum(S) ==
    IF S = {} THEN 0
    ELSE LET k == CHOOSE y \in S : TRUE IN Abs(C[k][1]) + AbsSum(S \ {k})

LastGrid == calls[Len(calls)]

\* The kernel table holds real coefficients only, as initC fills it.
RealCoefficients == \A k \in DOMAIN C : C[k][2] = 0

\* C4: degridKernel overwrites every slot: after a call, data[i] is the sum
\* over the stencil of sample i for the grid of this call, whatever data[i]
\* held before (the result of an earlier call with another or the same grid).
C4_Overwrites ==
    (phase = "serial_degrid" /\ Len(calls) > 0) =>
        \A d \in DOMAIN cpuoutdata :
            cpuoutdata[d] = StencilSum(LastGrid, past.cpu, d)

\* Two calls with different grids, the first of which left another result.
C4_Witness ==
    /\ phase = "serial_degrid"
    /\ Len(calls) = 2
    /\ calls[1] # calls[2]
    /\ \E d \in DOMAIN cpuoutdata :
          /\ StencilSum(calls[1], past.cpu, d) # Zero
          /\ StencilSum(calls[1], past.cpu, d) # cpuoutdata[d]

\* C5 as claimed: with every iu and iv in [support, gSize-support), every
\* grid index the four kernels access lies in [0, gSize*gSize) and every
\* stencil row inside one grid row.
C5_InBounds == ~oob

DegridThreadsDone == phase \in {"verify_degrid", "done"}

\* C10: in degridKernelOMP no data slot is stored to by two threads and the
\* grid stays as it was handed in; once the loop has ended every slot has been
\* stored to by one thread and the vector is the one degridKernel produces
\* from the same vectors.
C10_DegridOMP ==
    /\ \A d \in DOMAIN dwriter : Cardinality(dwriter[d]) <= 1
    /\ phase \in {"omp_degrid", "verify_degrid", "done"} => ompgrid = LastGrid
    /\ DegridThreadsDone =>
          /\ \A d \in DOMAIN dwriter : Cardinality(dwriter[d]) = 1
          /\ ompoutdata =
                degridKernel(ompgrid, GSize, support, C, cOffset, iu, iv,
                             [d \in DOMAIN ompoutdata |-> Zero], past.omp).data

\* The loop has ended after two threads ran different chunks.
C10_Witness ==
    /\ DegridThreadsDone
    /\ Size(ompoutdata) > ChunkSize
    /\ \E d, e \in DOMAIN dwriter : dwriter[d] # dwriter[e]
    /\ \E d \in DOMAIN ompoutdata : ompoutdata[d] # Zero

\* ------------------------------------------------- floating-point numbers
\* Coord (double) and Real (float) are binary floating-point numbers.  The
\* model keeps their rounding and shortens them: a number is an integer count
\* of units of 2^-FracBits, and is representable when that count has at most
\* the format's number of significant bits.  Every operation rounds its exact
\* result to the nearest representable number, ties to even.

\* Significant bits of the model's Coord (53 in a double).
CoordBits == 3
\* Significant bits of the model's Real (24 in a float).
RealBits == 8
\* The unit of both is 2^-FracBits.
FracBits == 5

RECURSIVE Pow2(_)
Pow2(n) == IF n <= 0 THEN 1 ELSE 2 * Pow2(n - 1)

\* The count of units of 1.0.
One == Pow2(FracBits)

\* num/den (num >= 0, den > 0) rounded to the nearest integer, ties to even.
NearestEven(num, den) ==
    LET q == num \div den
        r == num % den
    IN IF 2 * r > den THEN q + 1
       ELSE IF 2 * r < den THEN q
       ELSE IF q % 2 = 0 THEN q ELSE q + 1

\* The least e >= 0 with num/den < 2^(bits + e): the exponent of the last
\* significant bit of num/den.
RECURSIVE Exponent(_, _, _, _)
Exponent(num, den, bits, e) ==
    IF num < den * Pow2(bits + e) THEN e ELSE Exponent(num, den, bits, e + 1)

\* The rational num/den (den > 0) rounded to bits significant bits.
RoundTo(num, den, bits) ==
    LET a == IF num < 0 THEN -num ELSE num
        e == Exponent(a, den, bits, 0)
        m == NearestEven(a, den * Pow2(e)) * Pow2(e)
    IN IF num < 0 THEN -m ELSE m

\* double: x * y, x / y, x - y, and the conversions int -> double -> int.
DMul(x, y) == RoundTo(x * y, One, CoordBits)
DDiv(x, y) == IF y > 0 THEN RoundTo(x * One, y, CoordBits)
              ELSE RoundTo(-(x * One), -y, CoordBits)
DSub(x, y) == RoundTo(x - y, 1, CoordBits)
FromInt(i) == RoundTo(i * One, 1, CoordBits)
\* int(x): the fraction is discarded (truncation toward zero).
ToInt(x) == IF x >= 0 THEN x \div One ELSE -((-x) \div One)

\* The representable Coord values of magnitude at most top units.
CoordValues(top) == {x \in (-top)..top : RoundTo(x, 1, CoordBits) = x}

\* ------------------------------------------------------------ initCOffset
\* overSample = 8;
OverSample == 8

\* const Coord uScaled = freq[chan] * u[i] / cellSize;
Scaled(f, x, cell) == DDiv(DMul(f, x), cell)

\* iu[dind] = int(uScaled); if (uScaled < Coord(iu[dind])) iu[dind] -= 1;
Anchor(scaled) ==
    LET t == ToInt(scaled)
    IN IF scaled < FromInt(t) THEN t - 1 ELSE t

\* const int fracu = int(overSample * (uScaled - Coord(iu[dind])));
Bin(scaled, anchor, overSample) ==
    ToInt(DMul(FromInt(overSample), DSub(scaled, FromInt(anchor))))

\* int woff = wSize / 2 + int(wScaled);
Woff(wScaled, wSz) == wSz \div 2 + ToInt(wScaled)

\* cOffset[dind] = sSize * sSize * (fracu + overSample * (fracv + overSample * woff));
COffset(sSize, fu, fv, woff, overSample) ==
    sSize * sSize * (fu + overSample * (fv + overSample * woff))

\* initCOffset: the vectors it fills, and the bins it computed on the way.
\* dind = i * nChan + chan.
initCOffset(uV, vV, wV, fr, cell, wCell, wSz, gSize, sup, overSample) ==
    LET nChan == Size(fr)
        dinds == 0..(Size(uV) * nChan - 1)
        us(d) == Scaled(fr[d % nChan], uV[d \div nChan], cell)
        vs(d) == Scaled(fr[d % nChan], vV[d \div nChan], cell)
        ws(d) == Scaled(fr[d % nChan], wV[d \div nChan], wCell)
        fu(d) == Bin(us(d), Anchor(us(d)), overSample)
        fv(d) == Bin(vs(d), Anchor(vs(d)), overSample)
    IN [iu |-> [d \in dinds |-> Anchor(us(d)) + gSize \div 2],
        iv |-> [d \in dinds |-> Anchor(vs(d)) + gSize \div 2],
        cOffset |-> [d \in dinds |->
                        COffset(SSize(sup), fu(d), fv(d), Woff(ws(d), wSz),
                                overSample)],
        fracu |-> [d \in dinds |-> fu(d)],
        fracv |-> [d \in dinds |-> fv(d)]]

\* The variables the offset indexer does not use.
KernelsUnused ==
    /\ build = "none"
    /\ nthreads = 1
    /\ data = <<>>
    /\ cpugrid = <<>> /\ ompgrid = <<>> /\ grid0 = <<>>
    /\ cpuoutdata = <<>> /\ ompoutdata = <<>>
    /\ past = [cpu |-> Zero, omp |-> Zero]
    /\ loc = <<>> /\ chunk = <<>> /\ nextIter = 0
    /\ writer = <<>> /\ dwriter = <<>>
    /\ oob = FALSE
    /\ calls = <<>>
    /\ verdict = "none"

\* Largest magnitude of a coordinate tried, in grid cells.
MaxCoord == 2

\* Frequencies per channel tried: one channel, or two.
FreqLists == {[c \in 0..0 |-> One], [c \in 0..1 |-> IF c = 0 THEN One ELSE One \div 2]}

\* main before the call of initCOffset, for one sample with the coordinates
\* tried: every representable u, and v and w on the cell boundaries and midway.
InitOffset ==
    /\ KernelsUnused
    /\ phase = "offsets"
    /\ support \in 0..MaxSupport
    /\ u \in [0..0 -> CoordValues(MaxCoord * One)]
    /\ v \in [0..0 -> {-One, -(One \div 2), 0, One \div 2}]
    /\ w \in [0..0 -> {-One - One \div 2, 0, One \div 2}]
    /\ freq \in FreqLists
    /\ cellSize = One
    /\ wCellSize = One
    /\ wSize \in {3, 4}
    /\ C = <<>>
    /\ cOffset = <<>> /\ iu = <<>> /\ iv = <<>>
    /\ fracu = <<>> /\ fracv = <<>>
    /\ sumC = 0
    /\ baseline = One

\* initCOffset(u, v, w, freq, cellSize, wCellSize, wSize, gSize, support,
\*             overSample, cOffset, iu, iv)
InitCOffsetCall ==
    /\ phase = "offsets"
    /\ LET r == initCOffset(u, v, w, freq, cellSize, wCellSize, wSize, GSize,
                            support, OverSample)
       IN /\ cOffset' = r.cOffset
          /\ iu' = r.iu
          /\ iv' = r.iv
          /\ fracu' = r.fracu
          /\ fracv' = r.fracv
    /\ phase' = "offsets_done"
    /\ UNCHANGED <<u, v, w, freq, cellSize, wCellSize, wSize, sumC, baseline, build, support,
                   nthreads, data, C, cpugrid, ompgrid, cpuoutdata, ompoutdata,
                   past, loc, chunk, nextIter, writer, dwriter, oob, grid0, calls,
                   verdict>>

SpecOffset == InitOffset /\ [][InitCOffsetCall]_vars

\* ------------------------------------------------ properties: initCOffset
\* The exact floor of the rational x/One.
Floor(x) == IF x >= 0 THEN x \div One ELSE -(((-x) + One - 1) \div One)

\* C7 as claimed: for every (sample, channel), iu - gSize/2 and iv - gSize/2
\* are the floors of the scaled coordinates (rounding toward minus infinity),
\* and the oversample bins fracu and fracv lie in [0, overSample).
C7_FloorAndBins ==
    phase = "offsets_done" =>
        \A d \in DOMAIN iu :
            LET nChan == Size(freq)
                us == Scaled(freq[d % nChan], u[d \div nChan], cellSize)
                vs == Scaled(freq[d % nChan], v[d \div nChan], cellSize)
            IN /\ iu[d] - GSize \div 2 = Floor(us)
               /\ iv[d] - GSize \div 2 = Floor(vs)
               /\ fracu[d] \in 0..(OverSample - 1)
               /\ fracv[d] \in 0..(OverSample - 1)

\* ------------------------------------------------------------------ initC
\* float: x + y, x * y, x / y, and the conversion int -> float.
FAdd(x, y) == RoundTo(x + y, 1, RealBits)
FMul(x, y) == RoundTo(x * y, One, RealBits)
FDiv(x, y) == IF y > 0 THEN RoundTo(x * One, y, RealBits)
              ELSE RoundTo(-(x * One), -y, RealBits)
FFromInt(i) == RoundTo(i * One, 1, RealBits)

\* abs(C[i]) of a coefficient whose imaginary part is 0.
FAbs(z) == IF z[1] < 0 THEN -z[1] ELSE z[1]

\* const int cind = i + sSize * (j + sSize * (osi + overSample * (osj + overSample * k)));
CIndex(i, j, osi, osj, k, sSize, overSample) ==
    i + sSize * (j + sSize * (osi + overSample * (osj + overSample * k)))

\* The w-plane k that index cind belongs to.
PlaneOf(cind, sSize, overSample) == cind \div (sSize * sSize * overSample * overSample)

\* The coefficient of w-plane k: cos(r2 / (w * fScale)) when w = k - wSize/2
\* is not 0, exp(-r2) when it is.  cos and exp are not computed: shape gives,
\* for each plane, a value of their range, which the whole plane takes.
Coefficient(k, wSz, shape) ==
    IF k - wSz \div 2 # 0 THEN <<shape.cos[k], 0>> ELSE <<shape.exp, 0>>

\* The table after the loops over k, osj, osi, j, i.
Filled(sup, wSz, overSample, shape) ==
    [cind \in 0..(SSize(sup) * SSize(sup) * overSample * overSample * wSz - 1) |->
        Coefficient(PlaneOf(cind, SSize(sup), overSample), wSz, shape)]

\* Entries summed per block when the loop below is evaluated.
SumBlock == 32

\* sumC += abs(C[i]) for i in from..to-1, in this order.
SumAbs(tab, from, to, acc) ==
    LET step[i \in Nat, a \in Int] ==
            IF i >= to THEN a ELSE step[i + 1, FAdd(a, FAbs(tab[i]))]
    IN step[from, acc]

\* The same loop over the whole table, a block of entries after the other.
SumBlocks(tab, n) ==
    LET Min(x, y) == IF x < y THEN x ELSE y
        block[from \in Nat, a \in Int] ==
            IF from >= n THEN a
            ELSE block[from + SumBlock, SumAbs(tab, from, Min(from + SumBlock, n), a)]
    IN block[0, 0]

\* C[i] *= Value(wSize * overSample * overSample / sumC);
Scale(wSz, overSample, sum) == FDiv(FFromInt(wSz * overSample * overSample), sum)
Normalised(z, scale) == <<FMul(z[1], scale), FMul(z[2], scale)>>

\* initC from the loop that fills the table on: the table and sumC.
initC(sup, wSz, overSample, shape) ==
    LET tab == Filled(sup, wSz, overSample, shape)
        sum == SumBlocks(tab, Size(tab))
        scale == Scale(wSz, overSample, sum)
    IN [sumC |-> sum,
        C |-> [i \in DOMAIN tab |-> Normalised(tab[i], scale)]]

\* Largest number of w-planes tried (wSize).
MaxWSize == 5

\* Values of cos and of exp(-r2) tried for a plane.
CosValues == {One, -(One \div 2)}
ExpValues == {One, One \div 2}

\* The ranges of cos and exp a plane's value is drawn from.
Shapes(wSz) == [cos : [0..(wSz - 1) -> CosValues], exp : ExpValues]

\* sqrt(x) in double: the representable value nearest to the square root.
DSqrt(x) ==
    LET t == x * One
        below == {r \in CoordValues(x + One) : r >= 0 /\ r * r <= t}
        above == {r \in CoordValues(2 * (x + One)) : r >= 0 /\ r * r >= t}
        lo == CHOOSE r \in below : \A q \in below : q <= r
        hi == CHOOSE r \in above : \A q \in above : q >= r
    IN IF 4 * t <= (lo + hi) * (lo + hi) THEN lo ELSE hi

\* std::abs(baseline)
DAbs(x) == IF x < 0 THEN -x ELSE x

\* 1.5 * sqrt(std::abs(baseline) * static_cast<Coord>(cellSize) * freq[0]) / cellSize
SupportQuotient(base, cell, f0) ==
    DDiv(DMul(One + One \div 2, DSqrt(DMul(DMul(DAbs(base), cell), f0))), cell)

\* support = static_cast<int>(...);
Support(base, cell, f0) == ToInt(SupportQuotient(base, cell, f0))

\* wCellSize = 2 * baseline * freq[0] / wSize;
WCellSize(base, f0, wSz) == DDiv(DMul(DMul(FromInt(2), base), f0), FromInt(wSz))

\* Cell sizes tried, in units of 1/One.
CellSizes == {One, 2 * One, 4 * One}

\* main before the call of initC, for the configurations tried: a baseline
\* of 1, one channel of frequency 1 and the cell sizes and numbers of
\* w-planes above.  support and wCellSize are not yet set.
InitInitC ==
    /\ KernelsUnused
    /\ phase = "initC"
    /\ support = 0
    /\ wSize \in 1..MaxWSize
    /\ u = <<>> /\ v = <<>> /\ w = <<>>
    /\ freq = [c \in 0..0 |-> One]
    /\ baseline = One
    /\ cellSize \in CellSizes
    /\ wCellSize = 0
    /\ C = <<>>
    /\ cOffset = <<>> /\ iu = <<>> /\ iv = <<>>
    /\ fracu = <<>> /\ fracv = <<>>
    /\ sumC = 0

\* initC(freq, cellSize, baseline, wSize, support, overSample, wCellSize, C)
InitCCall ==
    /\ phase = "initC"
    /\ support' = Support(baseline, cellSize, freq[0])
    /\ wCellSize' = WCellSize(baseline, freq[0], wSize)
    /\ \E shape \in Shapes(wSize) :
          LET r == initC(support', wSize, OverSample, shape)
          IN /\ C' = r.C
             /\ sumC' = r.sumC
    /\ phase' = "initC_done"
    /\ UNCHANGED <<u, v, w, freq, cellSize, wSize, fracu, fracv, baseline, build,
                   nthreads, data, cOffset, iu, iv, cpugrid, ompgrid,
                   cpuoutdata, ompoutdata, past, loc, chunk, nextIter, writer,
                   dwriter, oob, grid0, calls, verdict>>

SpecInitC == InitInitC /\ [][InitCCall]_vars

\* ------------------------------------------------------ properties: initC
\* The exact sum of the magnitudes of a table's entries, in units of 1/One.
RECURSIVE MagnitudeSum(_, _, _)
MagnitudeSum(tab, from, to) ==
    IF to - from = 0 THEN 0
    ELSE IF to - from = 1 THEN FAbs(tab[from])
    ELSE LET mid == (from + to) \div 2
         IN MagnitudeSum(tab, from, mid) + MagnitudeSum(tab, mid, to)

\* C8 as claimed: after initC, whenever the pre-normalisation sum of magnitudes
\* is non-zero, the sum of the magnitudes of all entries of C divided by
\* wSize * overSample^2 is 1, here to within four units in the last place of Real.
C8_Normalised ==
    (phase = "initC_done" /\ sumC # 0) =>
        LET n == wSize * OverSample * OverSample
            diff == MagnitudeSum(C, 0, Size(C)) - n * One
        IN Abs(diff) * Pow2(RealBits - 2) <= n * One

\* ------------------------------------- properties: layout of the two tables
\* C.resize(sSize*sSize*overSample*overSample*wSize);
TableSize(sSize, overSample, wSz) == sSize * sSize * overSample * overSample * wSz

\* The values (i, j, osi, osj, k) that the loops of initC go through.
LoopTuple(i, j, osi, osj, k, sSize, overSample, wSz) ==
    /\ k \in 0..(wSz - 1)
    /\ osj \in 0..(overSample - 1)
    /\ osi \in 0..(overSample - 1)
    /\ j \in 0..(sSize - 1)
    /\ i \in 0..(sSize - 1)

\* The w-plane bin initCOffset computed for entry d of the offset table.
WoffOf(d) ==
    LET nChan == Size(freq)
    IN Woff(Scaled(freq[d % nChan], w[d \div nChan], wCellSize), wSize)

\* The layout of C11 for entry d of the offset table.
LayoutAgrees(d) ==
    LET sSize == SSize(support)
        woff == WoffOf(d)
    IN /\ cOffset[d] = sSize * sSize * (fracu[d] + OverSample * (fracv[d] + OverSample * woff))
       /\ cOffset[d] >= 0
       /\ cOffset[d] + sSize * sSize <= TableSize(sSize, OverSample, wSize)
       /\ \A i \in 0..(sSize - 1) : \A j \in 0..(sSize - 1) :
             /\ LoopTuple(i, j, fracu[d], fracv[d], woff, sSize, OverSample, wSize)
             /\ cOffset[d] + i + sSize * j
                    = CIndex(i, j, fracu[d], fracv[d], woff, sSize, OverSample)

\* C11 as claimed: for every sample whose w-plane bin woff is in [0, wSize),
\* cOffset = sSize*sSize*(fracu + overSample*(fracv + overSample*woff)), the
\* range [cOffset, cOffset + sSize*sSize) lies inside the kernel table, and
\* index cOffset + i + sSize*j is the entry initC filled for spatial offset
\* (i, j), oversample bins osi = fracu, osj = fracv and w-plane k = woff.
C11_Layout ==
    phase = "offsets_done" =>
        \A d \in DOMAIN cOffset :
            WoffOf(d) \in 0..(wSize - 1) => LayoutAgrees(d)

\* The same for the samples whose oversample bins are in [0, overSample).
LayoutOfBinsInRange ==
    phase = "offsets_done" =>
        \A d \in DOMAIN cOffset :
            (/\ WoffOf(d) \in 0..(wSize - 1)
             /\ fracu[d] \in 0..(OverSample - 1)
             /\ fracv[d] \in 0..(OverSample - 1)) => LayoutAgrees(d)

\* ----------------------------------------------- properties: w-plane bin
\* C12 as claimed: for every (sample, channel), negative w included, the
\* w-plane bin folded into cOffset is wSize/2 + floor(wScaled), where
\* wScaled = freq[chan] * w / wCellSize.
C12_WPlaneFloor ==
    phase = "offsets_done" =>
        \A d \in DOMAIN cOffset :
            LET nChan == Size(freq)
                ws == Scaled(freq[d % nChan], w[d \div nChan], wCellSize)
            IN cOffset[d] = COffset(SSize(support), fracu[d], fracv[d],
                                    wSize \div 2 + Floor(ws), OverSample)

\* The same for the samples whose w is not negative.
WPlaneFloorOfNonNegative ==
    phase = "offsets_done" =>
        \A d \in DOMAIN cOffset :
            LET nChan == Size(freq)
                ws == Scaled(freq[d % nChan], w[d \div nChan], wCellSize)
            IN w[d \div nChan] >= 0 =>
                  cOffset[d] = COffset(SSize(support), fracu[d], fracv[d],
                                       wSize \div 2 + Floor(ws), OverSample)

\* ------------------------------------------------- properties: support
\* The integer nearest to the non-negative rational q/One, halves upward.
Round(q) == (2 * q + One) \div (2 * One)

\* C13 as claimed: initC sets support to round(1.5 * sqrt(|baseline| *
\* cellSize * freq[0]) / cellSize), the integer nearest to that quotient,
\* also when the fractional part of the quotient is 0.5 or more.
C13_SupportRounded ==
    phase = "initC_done" =>
        support = Round(SupportQuotient(baseline, cellSize, freq[0]))

\* The same for the quotients whose fractional part is below 0.5.
SupportOfLowFraction ==
    phase = "initC_done" =>
        LET q == SupportQuotient(baseline, cellSize, freq[0])
        IN 2 * (q % One) < One => support = Round(q)

====
